---- MODULE Spec2Model ----
(***************************************************************************)
(* Two-Phase Handshake with a genetic circuit: the driver scripts of the   *)
(* repository and the Euler recalculation of run_simulation.               *)
(*                                                                         *)
(* Numbers.  The code computes on Python floats.  Here a rate constant or  *)
(* an intermediate value is an exact rational <<num, den>> (den > 0, in    *)
(* lowest terms) and a stored column entry is an integer count of 1/Scale. *)
(* A time is an integer count of 1/TicksPerUnit.                           *)
(***************************************************************************)
EXTENDS Integers, Sequences, FiniteSets, TLC

VARIABLES
    script,          \* which entry point is being executed
    pc,              \* position of the running script
    trace,           \* the steps that have completed, in order
    raised,          \* the exception that ended the script, or "none"
    time,            \* run_simulation: data.index
    data,            \* run_simulation: the solver's table, column name -> values
    req_in_signal,   \* run_simulation: the pulse array
    c_state,         \* run_simulation: recalculated arrays
    req_out,
    ack_out_recalc,
    ack_in_recalc,
    i,               \* run_simulation: loop index (as in Python, from 0)
    solver_table,    \* run_simulation: what run_time_course returned, <<>> before
    level,           \* hand_shake.py: the logging level read from input()
    app_logger,      \* the logger configured by setup_logger, <<>> before
    rr,              \* Tellurium: the loaded model (RoadRunner), <<>> before
    phase,           \* run_tellurium_simulation: the phase to run next
    all_data,        \* run_tellurium_simulation: the tables of the phases
    tellurium_data   \* what run_stage_4_tellurium returned, <<>> before

vars == <<script, pc, trace, raised, time, data, req_in_signal, c_state,
          req_out, ack_out_recalc, ack_in_recalc, i, solver_table, level,
          app_logger, rr, phase, all_data, tellurium_data>>

driverVars == <<level, app_logger, rr, phase, all_data, tellurium_data>>

eulerVars == <<time, data, req_in_signal, c_state, req_out, ack_out_recalc,
               ack_in_recalc, i, solver_table>>

(***************************************************************************)
(* Exact rationals.                                                        *)
(***************************************************************************)
RECURSIVE GCD(_, _)
GCD(a, b) == IF b = 0 THEN a ELSE GCD(b, a % b)

Abs(n) == IF n < 0 THEN -n ELSE n

Rat(n, d) ==
    LET g == GCD(Abs(n), d) IN <<n \div g, d \div g>>

RAdd(a, b) == Rat(a[1] * b[2] + b[1] * a[2], a[2] * b[2])
RSub(a, b) == Rat(a[1] * b[2] - b[1] * a[2], a[2] * b[2])
RMul(a, b) ==
    LET g1 == GCD(Abs(a[1]), b[2])
        g2 == GCD(Abs(b[1]), a[2])
    IN  Rat((a[1] \div g1) * (b[1] \div g2), (a[2] \div g2) * (b[2] \div g1))
RLess(a, b) == a[1] * b[2] < b[1] * a[2]
RInt(n) == <<n, 1>>

\* Resolution of a stored float: a column entry v stands for v / Scale.
Scale == 20

Val(v) == Rat(v, Scale)

\* The stored value of the exact result r of "old + increment": the grid
\* point nearest to r, except that a non-zero increment is never lost (a
\* double keeps 53 bits, far below these magnitudes), so the stored value
\* moves at least one grid unit in the direction of the increment.
Store(old, r) ==
    LET n == r[1] * Scale
        near == (2 * n + r[2]) \div (2 * r[2])
    IN  IF RLess(Val(old), r) THEN (IF near > old THEN near ELSE old + 1)
        ELSE IF RLess(r, Val(old)) THEN (IF near < old THEN near ELSE old - 1)
        ELSE old

\* np.clip(x, 0, 1) on a stored value
clip_unbounded(x) == x
clip(x) == IF x < 0 THEN 0 ELSE IF x > Scale THEN Scale ELSE x

(***************************************************************************)
(* run_simulation: constants                                               *)
(***************************************************************************)
tempo_final == 100
intervalos == 1000
\* Resolution of a time of the index: a time t stands for t / TicksPerUnit.
TicksPerUnit == 100

k_c_set == RInt(5)
k_c_reset == RInt(4)
k_prop == Rat(15, 10)
k_inv == Rat(18, 10)
k_deg_req == RInt(3)
k_ack == Rat(5, 10)
k_ack_deg == Rat(5, 100)

PulseLevel == Rat(8, 10)
One == RInt(1)

\* Python indexing: arr[k] with k from 0
At(arr, k) == arr[k + 1]
zeros_like(t) == [k \in 1..Len(t) |-> 0]
ones_like(t) == [k \in 1..Len(t) |-> Scale]

(***************************************************************************)
(* The solver's time grid.  basico.run_time_course is an external solver:  *)
(* it returns the uniform grid of duration/intervals, or, for a solver     *)
(* with its own step control, some increasing grid that starts at 0.       *)
(***************************************************************************)
MaxRows == 5

TimePoints == {500, 1000, 1005, 1010, 1050, 2995, 3000, 3005, 5000, 5010,
               7000, 10000}

\* duration / intervals: row k of the uniform grid is at k * 0.1
RowsPerUnit == intervalos \div tempo_final
UniformGrid ==
    [k \in 1..(intervalos + 1) |-> (k - 1) * (TicksPerUnit \div RowsPerUnit)]

RECURSIVE GridsFrom(_, _)
GridsFrom(g, n) ==
    IF n = 0 THEN {g}
    ELSE {g} \cup UNION { GridsFrom(Append(g, t), n - 1) :
                            t \in {p \in TimePoints : p > g[Len(g)]} }

FreeGrids == {g \in GridsFrom(<<0>>, MaxRows - 1) : Len(g) >= 2}

SolverColumns == {"P_off", "P_on", "RNA_signal", "Gene_output",
                  "Ack_in", "Ack_out", "C_state", "Req_out"}

\* values the solver may report for a species (counts of 1/Scale)
SolverLevels == {0, 13}

run_time_course(grid, lvl) ==
    [c \in SolverColumns |-> [k \in 1..Len(grid) |-> lvl]]

(***************************************************************************)
(* run_simulation: the pulse mask (lines 205-217)                          *)
(***************************************************************************)
mask1_closed(t) == (t >= 10 * TicksPerUnit) /\ (t <= 30 * TicksPerUnit)
mask1(t) == (t >= 10 * TicksPerUnit) /\ (t < 30 * TicksPerUnit)
mask2(t) == (t >= 50 * TicksPerUnit) /\ (t < 70 * TicksPerUnit)

PulseStored == (PulseLevel[1] * Scale) \div PulseLevel[2]

build_req_in(t) ==
    [k \in 1..Len(t) |-> IF mask1(t[k]) \/ mask2(t[k]) THEN PulseStored ELSE 0]

(***************************************************************************)
(* run_simulation: one iteration of the Euler loop (lines 241-283)         *)
(***************************************************************************)
dt_of(t, k) == Rat(At(t, k) - At(t, k - 1), TicksPerUnit)

\* C_state (lines 246-253)
prod_c_no_req(req, ack, c) == RMul(RMul(k_c_set, Val(ack)), RSub(One, Val(c)))
prod_c(req, ack, c) ==
    RMul(RMul(RMul(k_c_set, Val(req)), Val(ack)), RSub(One, Val(c)))
reset_factor_flat(req) == One
reset_factor(req) == RAdd(One, RMul(RSub(One, Val(req)), RInt(2)))
ack_feedback_c(ain) == RMul(RInt(8), Val(ain))
deg_c(req, c, ain) ==
    RMul(RMul(k_c_reset, Val(c)), RAdd(reset_factor(req), ack_feedback_c(ain)))
next_c_state(req, ack, c, ain, dt) ==
    clip(Store(c, RAdd(Val(c), RMul(RSub(prod_c(req, ack, c), deg_c(req, c, ain)), dt))))

\* Req_out (lines 259-264)
prod_r_leaky(c) == RAdd(RMul(k_prop, Val(c)), Rat(1, 10))
prod_r(c) == RMul(k_prop, Val(c))
reset_factor_req(req) == RAdd(One, RMul(RSub(One, Val(req)), RInt(3)))
ack_feedback(ain) == RMul(RInt(5), Val(ain))
deg_r(req, r, ain) ==
    RMul(RMul(k_deg_req, Val(r)), RAdd(reset_factor_req(req), ack_feedback(ain)))
next_req_out(req, cNew, r, ain, dt) ==
    clip(Store(r, RAdd(Val(r), RMul(RSub(prod_r(cNew), deg_r(req, r, ain)), dt))))

\* Ack_in (lines 270-276)
prod_ack_in_no_req(rNew, ain) == RMul(k_ack, RSub(One, Val(ain)))
prod_ack_in(rNew, ain) == RMul(RMul(k_ack, Val(rNew)), RSub(One, Val(ain)))
reset_factor_ack(req) == RAdd(One, RMul(Val(req), RInt(5)))
deg_ack_in(req, ain) == RMul(RMul(k_ack_deg, Val(ain)), reset_factor_ack(req))
next_ack_in(req, rNew, ain, dt) ==
    clip(Store(ain, RAdd(Val(ain), RMul(RSub(prod_ack_in(rNew, ain), deg_ack_in(req, ain)), dt))))

\* Ack_out (lines 280-283)
prod_ack(rNew, ack) ==
    RMul(RMul(RMul(k_inv, RSub(One, Val(ack))), RSub(One, Val(rNew))), Rat(25, 10))
deg_ack_no_req(rNew, ack) == RMul(RMul(k_inv, Val(ack)), RInt(2))
deg_ack(rNew, ack) == RMul(RMul(RMul(k_inv, Val(ack)), Val(rNew)), RInt(2))
next_ack_out(rNew, ack, dt) ==
    clip(Store(ack, RAdd(Val(ack), RMul(RSub(prod_ack(rNew, ack), deg_ack(rNew, ack)), dt))))

(***************************************************************************)
(* The driver scripts: the order of their steps.                          *)
(***************************************************************************)
\* PySB_hand_shake.py, run_stage_4_tellurium (lines 299-312)
run_stage_4_tellurium ==
    <<"generate_tellurium_model", "run_tellurium_simulation", "show_tellurium_plot">>

\* main.py, the main block (lines 13-30)
main_py == <<"setup_logger">> \o run_stage_4_tellurium

\* PySB_hand_shake.py, the main block (lines 315-322)
PySB_main == <<"basicConfig">> \o run_stage_4_tellurium

\* hand_shake.py, main (lines 92-122)
hand_shake_main_saves_first ==
    <<"setup_logger", "new_model", "add_parameter", "add_species", "add_reaction",
      "run_time_course", "save_model", "plotar_resultados">>
hand_shake_main ==
    <<"setup_logger", "new_model", "add_parameter", "add_species", "add_reaction",
      "run_time_course", "plotar_resultados", "save_model">>

Flow(s) ==
    CASE s = "main.py" -> main_py
      [] s = "PySB_hand_shake.py" -> PySB_main
      [] s = "hand_shake.py" -> hand_shake_main
      [] OTHER -> <<"rs_solver">>

Entry(s) == Flow(s)[1]

\* the statement after step p of a flow; "returned" after the last one
Succ(flow, p) ==
    LET k == CHOOSE n \in 1..Len(flow) : flow[n] = p
    IN  IF k = Len(flow) THEN "returned" ELSE flow[k + 1]

(***************************************************************************)
(* logger_functions.py, setup_logger (lines 9-32) and its call sites       *)
(***************************************************************************)
setup_logger_params == <<"name", "level">>
setup_logger_defaults == [name |-> "app", level |-> "INFO"]

\* main.py line 16: setup_logger(debug=False)
\* hand_shake.py line 98: setup_logger(__name__, level)
setup_logger_call(s, lvl) ==
    IF s = "main.py"
    THEN [args |-> <<>>, kwargs |-> [debug |-> "False"]]
    ELSE [args |-> <<"__main__", lvl>>, kwargs |-> <<>>]

\* Python binds a call to the parameters or raises TypeError
binds(call) ==
    /\ Len(call.args) <= Len(setup_logger_params)
    /\ \A kw \in DOMAIN call.kwargs :
          /\ \E n \in 1..Len(setup_logger_params) : setup_logger_params[n] = kw
          /\ \A n \in 1..Len(call.args) : setup_logger_params[n] # kw

bound(call, param) ==
    LET n == CHOOSE m \in 1..Len(setup_logger_params) : setup_logger_params[m] = param
    IN  IF n <= Len(call.args) THEN call.args[n]
        ELSE IF param \in DOMAIN call.kwargs THEN call.kwargs[param]
        ELSE setup_logger_defaults[param]

\* the body: level set, propagation off, one handler unless one exists
setup_logger(call, old) ==
    [name |-> bound(call, "name"),
     level |-> bound(call, "level"),
     propagate |-> FALSE,
     handlers |-> IF old = <<>> \/ old.handlers = 0 THEN 1 ELSE old.handlers]

(***************************************************************************)
(* PySB_hand_shake.py: the Tellurium model and its five phases             *)
(***************************************************************************)
\* rr.getFloatingSpeciesIds() of the Antimony model (lines 87-92)
species_names == <<"mRNA_Req", "Req_out", "mRNA_Ack", "Ack_out">>
SpeciesSet == {species_names[n] : n \in 1..Len(species_names)}

\* initial values of the Antimony model (lines 68, 89-92)
OriginSpecies == [mRNA_Req |-> 0, Req_out |-> 0, mRNA_Ack |-> 0, Ack_out |-> 1]
OriginReqIn == 0

\* te.loadAntimonyModel: the model at its origin; resets counts resetToOrigin
loadAntimonyModel ==
    [Req_in |-> OriginReqIn, species |-> OriginSpecies, resets |-> 0]

resetToOrigin(m) ==
    [m EXCEPT !.Req_in = OriginReqIn, !.species = OriginSpecies, !.resets = @ + 1]

\* The phases (lines 162-225): simulate(start, end, points) and the value
\* given to the model's Req_in before it.
PhaseTable ==
    << [start |-> 0,  end |-> 10,  points |-> 100, Req_in |-> 0],
       [start |-> 10, end |-> 30,  points |-> 200, Req_in |-> 1],
       [start |-> 30, end |-> 50,  points |-> 200, Req_in |-> 0],
       [start |-> 50, end |-> 70,  points |-> 200, Req_in |-> 1],
       [start |-> 70, end |-> 100, points |-> 300, Req_in |-> 0] >>
NumPhases == Len(PhaseTable)

\* rr['Req_in'] = ... of phase k
model_req_in(k) == PhaseTable[k].Req_in

\* df_k['Req_in'] = ... of phase k (lines 169, 183, 196, 209, 222)
column_req_in_stale(k) == 0
column_req_in(k) == <<0, 1, 0, 1, 0>>[k]

\* only phase 1 calls rr.resetToOrigin() (line 164)
phase_resets_always(k) == TRUE
phase_resets(k) == k = 1

\* "rr[name] = df[name].iloc[-1]" for every floating species
restore(m, df) ==
    [m EXCEPT !.species =
        [n \in SpeciesSet |-> df.rows[Len(df.rows)].species[n]]]

\* the model as phase k has prepared it for its simulate call
prepared(m, k, tables) ==
    LET m1 == [m EXCEPT !.Req_in = model_req_in(k)]
    IN  IF phase_resets(k) THEN resetToOrigin(m1)
        ELSE restore(m1, tables[k - 1])

\* The integrator is external: where a phase ends is any of these states.
SimOutcomes ==
    { [mRNA_Req |-> 0, Req_out |-> 0, mRNA_Ack |-> 0, Ack_out |-> 1],
      [mRNA_Req |-> 1, Req_out |-> 1, mRNA_Ack |-> 1, Ack_out |-> 0],
      [mRNA_Req |-> 0, Req_out |-> 1, mRNA_Ack |-> 1, Ack_out |-> 2] }

\* rr.simulate(start, end, points): the first row is the state the model holds
\* at the call and the last row the state it is left in; the rows in between
\* are left out.  Each row records the Req_in the model held while it was
\* produced.
simulate(m, k, last) ==
    << [t |-> PhaseTable[k].start, species |-> m.species, model_Req_in |-> m.Req_in],
       [t |-> PhaseTable[k].end, species |-> last, model_Req_in |-> m.Req_in] >>

\* the DataFrame of phase k: the species columns and the Req_in column
DataFrame(result, k, m) ==
    [rows |-> [n \in 1..Len(result) |->
                  [t |-> result[n].t,
                   species |-> result[n].species,
                   Req_in |-> column_req_in(k),
                   model_Req_in |-> result[n].model_Req_in]],
     started_from |-> m.species,
     resets_before |-> m.resets]

RECURSIVE concat(_)
concat(tables) ==
    IF tables = <<>> THEN <<>>
    ELSE tables[1].rows \o concat(Tail(tables))

(***************************************************************************)
(* Initial state: nothing has run yet.                                     *)
(***************************************************************************)
Scripts == {"run_simulation", "main.py", "hand_shake.py", "PySB_hand_shake.py"}

Init ==
    /\ script \in Scripts
    /\ pc = Entry(script)
    /\ trace = <<>>
    /\ raised = "none"
    /\ time = <<>>
    /\ data = <<>>
    /\ req_in_signal = <<>>
    /\ c_state = <<>>
    /\ req_out = <<>>
    /\ ack_out_recalc = <<>>
    /\ ack_in_recalc = <<>>
    /\ i = 0
    /\ solver_table = <<>>
    /\ level \in (IF script = "hand_shake.py" THEN {"INFO", "DEBUG"} ELSE {"INFO"})
    /\ app_logger = <<>>
    /\ rr = <<>>
    /\ phase = 1
    /\ all_data = <<>>
    /\ tellurium_data = <<>>

(***************************************************************************)
(* run_simulation (copasi_hand_shake.py, lines 191-291)                    *)
(***************************************************************************)
\* lines 193-203: the time course of the solver
RunTimeCourse ==
    /\ script = "run_simulation" /\ pc = "rs_solver"
    /\ \E grid \in {UniformGrid} \cup FreeGrids, lvl \in SolverLevels :
          /\ time' = grid
          /\ data' = run_time_course(grid, lvl)
          /\ solver_table' = [index |-> grid, columns |-> run_time_course(grid, lvl)]
    /\ pc' = "rs_mask"
    /\ UNCHANGED <<script, trace, raised, req_in_signal, c_state, req_out,
                   ack_out_recalc, ack_in_recalc, i>>
    /\ UNCHANGED driverVars

\* lines 205-217: the pulses of Req_in, stored as a new column
BuildReqIn ==
    /\ script = "run_simulation" /\ pc = "rs_mask"
    /\ req_in_signal' = build_req_in(time)
    /\ data' = [c \in DOMAIN data \cup {"Req_in"} |->
                   IF c = "Req_in" THEN build_req_in(time) ELSE data[c]]
    /\ pc' = "rs_alloc"
    /\ UNCHANGED <<script, trace, raised, time, c_state, req_out,
                   ack_out_recalc, ack_in_recalc, i, solver_table>>
    /\ UNCHANGED driverVars

\* lines 235-238: the arrays of the recalculation; the loop starts at 1
AllocArrays ==
    /\ script = "run_simulation" /\ pc = "rs_alloc"
    /\ c_state' = zeros_like(time)
    /\ req_out' = zeros_like(time)
    /\ ack_out_recalc' = ones_like(time)
    /\ ack_in_recalc' = zeros_like(time)
    /\ i' = 1
    /\ pc' = "rs_loop"
    /\ UNCHANGED <<script, trace, raised, time, data, req_in_signal, solver_table>>
    /\ UNCHANGED driverVars

\* lines 241-283: one iteration of "for i in range(1, len(time))"
EulerStep ==
    /\ script = "run_simulation" /\ pc = "rs_loop"
    /\ i < Len(time)
    /\ LET dt == dt_of(time, i)
           req == At(req_in_signal, i)
           cNew == next_c_state(req, At(ack_out_recalc, i - 1), At(c_state, i - 1),
                                At(ack_in_recalc, i - 1), dt)
           rNew == next_req_out(req, cNew, At(req_out, i - 1),
                                At(ack_in_recalc, i - 1), dt)
           aiNew == next_ack_in(req, rNew, At(ack_in_recalc, i - 1), dt)
           aoNew == next_ack_out(rNew, At(ack_out_recalc, i - 1), dt)
       IN  /\ c_state' = [c_state EXCEPT ![i + 1] = cNew]
           /\ req_out' = [req_out EXCEPT ![i + 1] = rNew]
           /\ ack_in_recalc' = [ack_in_recalc EXCEPT ![i + 1] = aiNew]
           /\ ack_out_recalc' = [ack_out_recalc EXCEPT ![i + 1] = aoNew]
    /\ i' = i + 1
    /\ UNCHANGED <<script, pc, trace, raised, time, data, req_in_signal,
                   solver_table>>
    /\ UNCHANGED driverVars

\* lines 286-289: data['C_state'] = c_state, ... on the solver's table
store_columns_and_output(d, c, r, ao, ai) ==
    [d EXCEPT !["C_state"] = c, !["Req_out"] = r, !["Ack_out"] = ao,
              !["Ack_in"] = ai, !["Gene_output"] = r]
store_columns(d, c, r, ao, ai) ==
    [d EXCEPT !["C_state"] = c, !["Req_out"] = r, !["Ack_out"] = ao,
              !["Ack_in"] = ai]

\* lines 285-291: the recalculated arrays replace the columns; return data
StoreColumns ==
    /\ script = "run_simulation" /\ pc = "rs_loop"
    /\ i >= Len(time)
    /\ data' = store_columns(data, c_state, req_out, ack_out_recalc, ack_in_recalc)
    /\ pc' = "returned"
    /\ UNCHANGED <<script, trace, raised, time, req_in_signal, c_state,
                   req_out, ack_out_recalc, ack_in_recalc, i, solver_table>>
    /\ UNCHANGED driverVars

(***************************************************************************)
(* Steps of the driver scripts.  A step that completes is recorded in      *)
(* trace and control moves to the next statement; a step that raises ends  *)
(* the script (the _timed context managers log and re-raise).              *)
(***************************************************************************)
Completes(name) ==
    /\ trace' = Append(trace, <<name, "ok">>)
    /\ pc' = Succ(Flow(script), pc)
    /\ raised' = raised

Raises(name, exc) ==
    /\ trace' = Append(trace, <<name, "raised">>)
    /\ pc' = "failed"
    /\ raised' = exc

\* a call into an external library: it returns or it raises
LibraryCall(name) ==
    /\ script # "run_simulation" /\ pc = name
    /\ \/ Completes(name)
       \/ Raises(name, "Exception")
    /\ UNCHANGED <<script, level, app_logger, rr, phase, all_data, tellurium_data>>
    /\ UNCHANGED eulerVars

\* main.py line 16 and hand_shake.py line 98
SetupLogger ==
    /\ script # "run_simulation" /\ pc = "setup_logger"
    /\ LET call == setup_logger_call(script, level)
       IN  IF binds(call)
           THEN /\ app_logger' = setup_logger(call, app_logger)
                /\ Completes("setup_logger")
           ELSE /\ app_logger' = app_logger
                /\ Raises("setup_logger", "TypeError")
    /\ UNCHANGED <<script, level, rr, phase, all_data, tellurium_data>>
    /\ UNCHANGED eulerVars

\* PySB_hand_shake.py lines 316-320
BasicConfig == LibraryCall("basicConfig")

\* hand_shake.py: criar_modelo_handshake (lines 13-33)
NewModel == LibraryCall("new_model")
AddParameter == LibraryCall("add_parameter")
AddSpecies == LibraryCall("add_species")
\* hand_shake.py: definir_reacoes_cineticas (lines 36-73)
AddReaction == LibraryCall("add_reaction")
\* hand_shake.py: main (lines 105-122)
MainRunTimeCourse == LibraryCall("run_time_course")
PlotarResultados == LibraryCall("plotar_resultados")
SaveModel == LibraryCall("save_model")

\* PySB_hand_shake.py: generate_tellurium_model (lines 42-145)
GenerateTelluriumModel ==
    /\ script # "run_simulation" /\ pc = "generate_tellurium_model"
    /\ \/ /\ rr' = loadAntimonyModel
          /\ Completes("generate_tellurium_model")
       \/ /\ rr' = rr
          /\ Raises("generate_tellurium_model", "Exception")
    /\ UNCHANGED <<script, level, app_logger, phase, all_data, tellurium_data>>
    /\ UNCHANGED eulerVars

\* PySB_hand_shake.py: one phase of run_tellurium_simulation (lines 162-225)
RunPhase ==
    /\ script # "run_simulation" /\ pc = "run_tellurium_simulation"
    /\ phase <= NumPhases
    /\ LET m == prepared(rr, phase, all_data)
       IN  \/ \E last \in SimOutcomes :
                /\ rr' = [m EXCEPT !.species = last]
                /\ all_data' = Append(all_data,
                                      DataFrame(simulate(m, phase, last), phase, m))
                /\ phase' = phase + 1
                /\ UNCHANGED <<pc, trace, raised>>
           \/ /\ rr' = m
              /\ Raises("run_tellurium_simulation", "Exception")
              /\ UNCHANGED <<phase, all_data>>
    /\ UNCHANGED <<script, level, app_logger, tellurium_data>>
    /\ UNCHANGED eulerVars

\* PySB_hand_shake.py: pd.concat and return (lines 227-232)
ConcatPhases ==
    /\ script # "run_simulation" /\ pc = "run_tellurium_simulation"
    /\ phase > NumPhases
    /\ Completes("run_tellurium_simulation")
    /\ UNCHANGED <<script, level, app_logger, rr, phase, all_data, tellurium_data>>
    /\ UNCHANGED eulerVars

\* PySB_hand_shake.py: show_tellurium_plot, then "return data" (lines 310-312)
\* and the binding of the result by the caller
ShowTelluriumPlot ==
    /\ script # "run_simulation" /\ pc = "show_tellurium_plot"
    /\ \/ /\ tellurium_data' = concat(all_data)
          /\ Completes("show_tellurium_plot")
       \/ /\ tellurium_data' = tellurium_data
          /\ Raises("show_tellurium_plot", "Exception")
    /\ UNCHANGED <<script, level, app_logger, rr, phase, all_data>>
    /\ UNCHANGED eulerVars

Next ==
    \/ RunTimeCourse
    \/ BuildReqIn
    \/ AllocArrays
    \/ EulerStep
    \/ StoreColumns
    \/ SetupLogger
    \/ BasicConfig
    \/ NewModel
    \/ AddParameter
    \/ AddSpecies
    \/ AddReaction
    \/ MainRunTimeCourse
    \/ PlotarResultados
    \/ SaveModel
    \/ GenerateTelluriumModel
    \/ RunPhase
    \/ ConcatPhases
    \/ ShowTelluriumPlot

Spec == Init /\ [][Next]_vars

(***************************************************************************)
(* Properties of run_simulation                                            *)
(***************************************************************************)
\* Python indices of the loop iterations that have already run
Steps == 1..(i - 1)
Rows == 0..(i - 1)
Recalculated == {"C_state", "Req_out", "Ack_in", "Ack_out"}
Returned == script = "run_simulation" /\ pc = "returned"
UnequalSteps ==
    \E k \in 2..(Len(time) - 1) : time[k + 1] - time[k] # time[k] - time[k - 1]

\* C1: after the Euler recalculation every row (row 0 included) of C_state,
\* Req_out, Ack_in, Ack_out and Req_in of the returned table holds a value
\* between 0 and 1, whatever the step sizes of the solver's time grid (and so
\* does every row the loop has written so far).
C1_ColumnsWithinUnitInterval ==
    /\ Returned =>
          \A col \in Recalculated \cup {"Req_in"} :
              \A k \in 1..Len(time) : 0 <= data[col][k] /\ data[col][k] <= Scale
    /\ \A k \in Rows :
          \A arr \in {c_state, req_out, ack_in_recalc, ack_out_recalc} :
              0 <= At(arr, k) /\ At(arr, k) <= Scale

\* C1 witness: a returned table on a grid of unequal steps on which the
\* increment of C_state overshot both ends and was clipped to 1 and to 0.
C1_Witness ==
    /\ Returned
    /\ UnequalSteps
    /\ \E k \in 1..Len(time) : data["C_state"][k] = Scale
    /\ \E k \in 2..Len(time) : data["C_state"][k] = 0 /\ data["C_state"][k - 1] > 0
    /\ \E k \in 2..Len(time) : data["Ack_out"][k] = 0

InPulse(t) ==
    \/ (10 * TicksPerUnit <= t /\ t < 30 * TicksPerUnit)
    \/ (50 * TicksPerUnit <= t /\ t < 70 * TicksPerUnit)

\* C2: the Req_in column is a two-pulse mask over the time index: 0.8 exactly
\* on 10 <= t < 30 and 50 <= t < 70, and 0.0 at every other t (t = 30 and
\* t = 70 included).
C2_ReqInIsTwoPulseMask ==
    "Req_in" \in DOMAIN data =>
        \A k \in 1..Len(time) :
            /\ (data["Req_in"][k] = (8 * Scale) \div 10) <=> InPulse(time[k])
            /\ ~InPulse(time[k]) => data["Req_in"][k] = 0
            /\ req_in_signal[k] = data["Req_in"][k]

\* C2 witness: a table whose index holds t = 29.95, 30 and 70: the pulse is on
\* at 29.95 and off at 30 and at 70.
C2_Witness ==
    /\ "Req_in" \in DOMAIN data
    /\ \E a, b, c \in 1..Len(time) :
          /\ time[a] = 2995 /\ data["Req_in"][a] > 0
          /\ time[b] = 3000 /\ data["Req_in"][b] = 0
          /\ time[c] = 7000 /\ data["Req_in"][c] = 0

\* C7: SET rule of the C-element: over a step i >= 1, C_state rises only if
\* Req_in[i] > 0, Ack_out[i-1] > 0 and C_state[i-1] < 1; and from
\* C_state[i-1] = 0 with Req_in[i] > 0 and Ack_out[i-1] > 0 the new C_state[i]
\* is strictly positive.
C7_CStateSetRule ==
    \A k \in Steps :
        /\ At(c_state, k) > At(c_state, k - 1) =>
              /\ At(req_in_signal, k) > 0
              /\ At(ack_out_recalc, k - 1) > 0
              /\ At(c_state, k - 1) < Scale
        /\ (At(c_state, k - 1) = 0 /\ At(req_in_signal, k) > 0
              /\ At(ack_out_recalc, k - 1) > 0) => At(c_state, k) > 0

\* C7 witness: one run in which C_state was set from 0 during a pulse, and in
\* which a later pulse row found Ack_out = 0 and C_state did not rise.
C7_Witness ==
    /\ \E k \in Steps :
          /\ At(c_state, k - 1) = 0 /\ At(req_in_signal, k) > 0
          /\ At(c_state, k) > 0 /\ At(c_state, k) < Scale
    /\ \E k \in Steps :
          /\ At(req_in_signal, k) > 0 /\ At(ack_out_recalc, k - 1) = 0
          /\ At(c_state, k) <= At(c_state, k - 1)

\* C8: RESET rule of the C-element: over a step i >= 1 with Req_in[i] = 0,
\* C_state does not rise, and falls strictly when C_state[i-1] > 0; on the
\* solver's uniform grid (dt = 0.1) C_state is 0 at the first row after a
\* pulse ended and at every later row without a pulse.
C8_CStateResetRule ==
    /\ \A k \in Steps :
          At(req_in_signal, k) = 0 =>
              /\ At(c_state, k) <= At(c_state, k - 1)
              /\ At(c_state, k - 1) > 0 => At(c_state, k) < At(c_state, k - 1)
    /\ time = UniformGrid =>
          \A k \in Steps :
              (At(req_in_signal, k) = 0 /\ At(time, k) >= 30 * TicksPerUnit)
                  => At(c_state, k) = 0

\* C8 witness: on the uniform grid the loop has passed the end of the second
\* pulse: C_state was positive in the last row of each pulse and 0 in the
\* row after it.
C8_Witness ==
    /\ time = UniformGrid
    /\ i > 70 * RowsPerUnit + 1
    /\ \A e \in {30 * RowsPerUnit, 70 * RowsPerUnit} :
          /\ At(req_in_signal, e - 1) > 0 /\ At(c_state, e - 1) > 0
          /\ At(req_in_signal, e) = 0 /\ At(c_state, e) = 0

\* C9: Req_out follows C_state: over a step i >= 1, Req_out rises only if
\* C_state[i] > 0; when C_state[i] = 0, Req_out does not rise.
C9_ReqOutFollowsCState ==
    \A k \in Steps :
        /\ At(req_out, k) > At(req_out, k - 1) => At(c_state, k) > 0
        /\ At(c_state, k) = 0 => At(req_out, k) <= At(req_out, k - 1)

\* C9 witness: Req_out rose in a step with C_state[i] > 0 and fell in a later
\* step with C_state[i] = 0.
C9_Witness ==
    /\ \E k \in Steps :
          At(req_out, k) > At(req_out, k - 1) /\ At(c_state, k) > 0
    /\ \E k \in Steps :
          At(c_state, k) = 0 /\ At(req_out, k) < At(req_out, k - 1)

\* C10: Ack_out inverts Req_out: over a step i >= 1, Ack_out falls only if
\* Req_out[i] > 0; when Req_out[i] = 0, Ack_out does not fall, and it stays
\* exactly 1 if it was 1.
C10_AckOutInvertsReqOut ==
    \A k \in Steps :
        /\ At(ack_out_recalc, k) < At(ack_out_recalc, k - 1) => At(req_out, k) > 0
        /\ At(req_out, k) = 0 =>
              /\ At(ack_out_recalc, k) >= At(ack_out_recalc, k - 1)
              /\ At(ack_out_recalc, k - 1) = Scale => At(ack_out_recalc, k) = Scale

\* C10 witness: Ack_out fell under Req_out[i] > 0, later recovered in a step
\* with Req_out[i] = 0, and elsewhere stayed at 1 with Req_out[i] = 0.
C10_Witness ==
    /\ \E k \in Steps :
          At(ack_out_recalc, k) < At(ack_out_recalc, k - 1) /\ At(req_out, k) > 0
    /\ \E k \in Steps :
          /\ At(req_out, k) = 0 /\ At(ack_out_recalc, k - 1) < Scale
          /\ At(ack_out_recalc, k) > At(ack_out_recalc, k - 1)
    /\ \E k \in Steps :
          /\ At(req_out, k) = 0 /\ At(ack_out_recalc, k - 1) = Scale
          /\ At(ack_out_recalc, k) = Scale

(***************************************************************************)
(* Properties of the Tellurium phases and of the driver scripts            *)
(***************************************************************************)
\* the phases as the docstring of run_tellurium_simulation lists them
ExpectedPhases ==
    << <<0, 10, 0>>, <<10, 30, 1>>, <<30, 50, 0>>, <<50, 70, 1>>, <<70, 100, 0>> >>

SimulationReturned ==
    \E n \in 1..Len(trace) : trace[n] = <<"run_tellurium_simulation", "ok">>

\* C3: run_tellurium_simulation runs exactly five phases in the order Req_in=0
\* on [0,10], 1 on [10,30], 0 on [30,50], 1 on [50,70], 0 on [70,100], with
\* the model's Req_in set before each simulate call, and every row of the
\* returned table carries in its Req_in column the value the model held
\* while the row was produced.
C3_FivePhasesCarryTheirReqIn ==
    /\ Len(all_data) <= 5
    /\ SimulationReturned => Len(all_data) = 5
    /\ \A k \in 1..Len(all_data) :
          LET rows == all_data[k].rows
          IN  /\ rows[1].t = ExpectedPhases[k][1]
              /\ rows[Len(rows)].t = ExpectedPhases[k][2]
              /\ \A n \in 1..Len(rows) :
                    /\ rows[n].model_Req_in = ExpectedPhases[k][3]
                    /\ rows[n].Req_in = rows[n].model_Req_in
    /\ tellurium_data # <<>> =>
          /\ tellurium_data = concat(all_data)
          /\ \A n \in 1..Len(tellurium_data) :
                tellurium_data[n].Req_in = tellurium_data[n].model_Req_in

\* C3 witness: Stage 4 returned the table of all five phases, with rows of
\* Req_in = 1 between rows of Req_in = 0.
C3_Witness ==
    /\ tellurium_data # <<>>
    /\ Len(all_data) = 5
    /\ \E a, b, c \in 1..Len(tellurium_data) :
          /\ a < b /\ b < c
          /\ tellurium_data[a].Req_in = 0
          /\ tellurium_data[b].Req_in = 1 /\ tellurium_data[b].t = 30
          /\ tellurium_data[c].Req_in = 0 /\ tellurium_data[c].t = 100

\* C4: continuity across the phases: for each phase k in 2..5 and every
\* floating species, the value the model holds when the simulate call of
\* phase k starts is the value of the last row of phase k-1; the model is
\* reset to its origin exactly once, before phase 1, and by no later phase.
C4_PhasesContinue ==
    /\ \A k \in 2..Len(all_data) :
          \A sp \in SpeciesSet :
              all_data[k].started_from[sp] =
                  all_data[k - 1].rows[Len(all_data[k - 1].rows)].species[sp]
    /\ \A k \in 1..Len(all_data) : all_data[k].resets_before = 1
    /\ (all_data # <<>>) => rr.resets = 1
    /\ (all_data # <<>>) => all_data[1].started_from = OriginSpecies

\* C4 witness: all five phases ran and a phase started from a state that is
\* not the origin, which differs from where the phase before it started.
C4_Witness ==
    /\ Len(all_data) = 5
    /\ \E k \in 2..5 :
          /\ all_data[k].started_from # OriginSpecies
          /\ all_data[k].started_from # all_data[k - 1].started_from
    /\ all_data[5].started_from # all_data[1].rows[2].species

\* the documented order of the steps of each driver
ExpectedOrder(s) ==
    IF s = "hand_shake.py"
    THEN <<"setup_logger", "new_model", "add_parameter", "add_species",
           "add_reaction", "run_time_course", "plotar_resultados", "save_model">>
    ELSE <<IF s = "main.py" THEN "setup_logger" ELSE "basicConfig",
           "generate_tellurium_model", "run_tellurium_simulation",
           "show_tellurium_plot">>

\* C5: the drivers run build model -> simulate -> post-process -> plot in
\* that fixed order (hand_shake.main: parameters and species, reactions,
\* run_time_course, plotar_resultados, and save_model only after the plot;
\* run_stage_4_tellurium: generate, simulate, plot); each step starts after
\* the one before it completed, and a step that raises is the last step.
C5_StepsInFixedOrder ==
    script \in {"hand_shake.py", "PySB_hand_shake.py", "main.py"} =>
        /\ Len(trace) <= Len(ExpectedOrder(script))
        /\ \A n \in 1..Len(trace) :
              /\ trace[n][1] = ExpectedOrder(script)[n]
              /\ n < Len(trace) => trace[n][2] = "ok"
        /\ (raised # "none") <=>
              (trace # <<>> /\ trace[Len(trace)][2] = "raised")
        /\ (raised # "none") => pc = "failed"
        /\ pc = "returned" <=>
              (Len(trace) = Len(ExpectedOrder(script)) /\ raised = "none")

\* C5 witness: hand_shake.main saved the model after every earlier step had
\* completed.
C5_Witness ==
    /\ script = "hand_shake.py"
    /\ pc = "returned"
    /\ trace[Len(trace)] = <<"save_model", "ok">>
    /\ trace[Len(trace) - 1] = <<"plotar_resultados", "ok">>

\* a driver stopped by a step that raised: nothing ran after it
StoppedByRaise ==
    /\ script = "PySB_hand_shake.py"
    /\ raised # "none"
    /\ trace[Len(trace)] = <<"run_tellurium_simulation", "raised">>

\* C6: run as a script, main.py configures logging through setup_logger and
\* then runs Stage 4: the setup_logger call returns without raising, so
\* run_stage_4_tellurium is reached.
C6_SetupLoggerReturns ==
    (script = "main.py" /\ pc # "setup_logger") =>
        /\ trace[1] = <<"setup_logger", "ok">>
        /\ raised # "TypeError"

(***************************************************************************)
(* Causality and frame of run_simulation                                   *)
(***************************************************************************)
\* some row up to row k of the array holds a positive value
SeenPositive(arr, k) == \E j \in 0..k : At(arr, j) > 0

\* C11: causality of the handshake signals: in every row i, C_state[i] > 0
\* only if Req_in was positive in some row j <= i, Req_out[i] > 0 only if
\* C_state was positive in some row j <= i, Ack_in[i] > 0 and Ack_out[i] < 1
\* only if Req_out was positive in some row j <= i; every row before the
\* first pulse (t < 10) holds exactly C_state = 0, Req_out = 0, Ack_in = 0 and
\* Ack_out = 1.
C11_SignalsAreCaused ==
    /\ \A k \in Rows :
          /\ At(c_state, k) > 0 => SeenPositive(req_in_signal, k)
          /\ At(req_out, k) > 0 => SeenPositive(c_state, k)
          /\ At(ack_in_recalc, k) > 0 => SeenPositive(req_out, k)
          /\ At(ack_out_recalc, k) < Scale => SeenPositive(req_out, k)
          /\ At(time, k) < 10 * TicksPerUnit =>
                /\ At(c_state, k) = 0 /\ At(req_out, k) = 0
                /\ At(ack_in_recalc, k) = 0 /\ At(ack_out_recalc, k) = Scale
    /\ Returned =>
          \A k \in 1..Len(time) :
              time[k] < 10 * TicksPerUnit =>
                  /\ data["C_state"][k] = 0 /\ data["Req_out"][k] = 0
                  /\ data["Ack_in"][k] = 0 /\ data["Ack_out"][k] = Scale

\* C11 witness: the loop wrote a row before the first pulse, and in a later
\* row all four signals have left their initial values.
C11_Witness ==
    /\ i > 2
    /\ At(time, 1) < 10 * TicksPerUnit
    /\ \E k \in Rows :
          /\ At(c_state, k) > 0 /\ At(req_out, k) > 0
          /\ At(ack_in_recalc, k) > 0 /\ At(ack_out_recalc, k) < Scale

Touched == {"Req_in", "C_state", "Req_out", "Ack_out", "Ack_in"}

\* C12: run_simulation changes the solver's table in place and touches only
\* five columns: the returned table has the solver's time index and row
\* count, every column other than Req_in, C_state, Req_out, Ack_out and
\* Ack_in (P_off, P_on, RNA_signal, Gene_output) holds the solver's values,
\* and row 0 of the recalculated columns holds C_state = 0, Req_out = 0,
\* Ack_in = 0, Ack_out = 1.
C12_OnlyFiveColumnsTouched ==
    /\ solver_table # <<>> =>
          /\ time = solver_table.index
          /\ DOMAIN solver_table.columns \subseteq DOMAIN data
          /\ DOMAIN data \subseteq DOMAIN solver_table.columns \cup {"Req_in"}
          /\ \A col \in DOMAIN data :
                /\ Len(data[col]) = Len(solver_table.index)
                /\ col \notin Touched => data[col] = solver_table.columns[col]
    /\ Returned =>
          /\ DOMAIN data = DOMAIN solver_table.columns \cup {"Req_in"}
          /\ {"P_off", "P_on", "RNA_signal", "Gene_output"} \subseteq DOMAIN data
          /\ data["C_state"][1] = 0 /\ data["Req_out"][1] = 0
          /\ data["Ack_in"][1] = 0 /\ data["Ack_out"][1] = Scale

\* C12 witness: a returned table whose recalculated columns differ from the
\* solver's (the solver reported non-zero values, Req_out was recalculated
\* to something else) while Gene_output still holds the solver's values.
C12_Witness ==
    /\ Returned
    /\ solver_table.columns["Gene_output"][1] > 0
    /\ data["Gene_output"] = solver_table.columns["Gene_output"]
    /\ data["Req_out"] # solver_table.columns["Req_out"]
    /\ data["Ack_out"] # solver_table.columns["Ack_out"]
    /\ \E k \in 1..Len(time) : data["Req_out"][k] > 0

====
